---------------------------- MODULE Spec2Model ----------------------------
(***************************************************************************)
(* Spreadsheet Music (src/main.py): two asyncio tasks, receive and send,   *)
(* share one asyncio.PriorityQueue of (t_event, message, note) entries.    *)
(*                                                                         *)
(* Numbers.  A Python float is modelled by the integer count of its        *)
(* eighths: Scale = 8 units per 1.0 (0.125 is 1, 0.25 is 2, 1.0 is 8).     *)
(* The clock and the float cells of the sheets take such values only.      *)
(* They are exact in binary and //, %, * and + on them are exact, so the   *)
(* integer arithmetic of the model is the float arithmetic of the code.    *)
(* int-typed fields (pitch, channel) are plain integers.                   *)
(*                                                                         *)
(* The one float of the program that is not a count of eighths is the      *)
(* default duration 0.1.  It is only ever added to the fire time of a      *)
(* NOTE_ON entry (line 152).  A fire time and a duration are therefore a   *)
(* pair <<k, d>>, standing for the float k/8 + d * 0.1 with d in {0, 1}:   *)
(* k/8 + 0.1 lies strictly between k/8 and (k + 1)/8, so such pairs are    *)
(* ordered as their floats are by comparing k first and d next.            *)
(*                                                                         *)
(* A cell can also hold float('inf').  In an int-typed column it makes     *)
(* line 193 raise OverflowError, and the sheets of the model hold it       *)
(* there only; in a float-typed column it gives a field of Infinity, on    *)
(* which the arithmetic of lines 112-114 and 152-153 is not modelled.      *)
(*                                                                         *)
(* Scheduling.  asyncio runs one task at a time and switches only where a  *)
(* task suspends.  `cpu` names the task that is running ("none" when both  *)
(* are suspended).  On the unbounded queue of line 74, `await queue.put`   *)
(* never suspends and `await queue.get` suspends only on an empty queue.   *)
(***************************************************************************)
EXTENDS Integers, Sequences, FiniteSets, Bags, TLC

\* ---------------------------------------------------------------- bounds
\* The clock is read at 0 and at MaxTime later instants, 0.125 apart.
MaxTime == 5
\* Fire times are followed down to MaxBack clock steps before 0 (a note
\* with a negative loop walks backwards in time without end).
MaxBack == 3

\* ------------------------------------------------------------- constants
NOTE_ON == 144
NOTE_OFF == 128
\* Units per 1.0 of a Python float.
Scale == 8
DefaultChannel == 1
DefaultLoop == 8
DefaultOnset == 0
DefaultVelocity == 512
DefaultProbability == 8

\* ----------------------------------------------------------------- times
\* The float k/8, and the float k/8 + 0.1, as fire time or duration.
At(k) == <<k, 0>>
AtPlusDefault(k) == <<k, 1>>
\* Line 52: duration 0.1.
DefaultDuration == AtPlusDefault(0)
\* a < b, a <= b and a + b on the floats the pairs stand for.
TimeLess(a, b) == a[1] < b[1] \/ (a[1] = b[1] /\ a[2] < b[2])
TimeLeq(a, b) == ~TimeLess(b, a)
TimePlus(a, b) == <<a[1] + b[1], a[2] + b[2]>>

\* ------------------------------------------------------------ Note model
\* Field order of the dataclass: it is the comparison order of order=True.
Fields == <<"pitch", "channel", "loop", "onset", "duration", "velocity", "probability">>
IntFields == {"pitch", "channel"}
FieldSet == {Fields[i] : i \in 1..Len(Fields)}

Note(pitch, channel, loop, onset, duration, velocity, probability) ==
  [pitch |-> pitch, channel |-> channel, loop |-> loop, onset |-> onset,
   duration |-> duration, velocity |-> velocity, probability |-> probability]

\* Placeholder held by locals that are not bound to a note.
NoNote == Note(0, 0, 0, 0, At(0), 0, 0)

\* x < y on two values of the field k.
FieldLess(k, x, y) == IF k = "duration" THEN TimeLess(x, y) ELSE x < y

\* Note.__lt__ generated by dataclass(order=True): tuple comparison.
NoteLess(a, b) ==
  \E i \in 1..Len(Fields) :
    /\ FieldLess(Fields[i], a[Fields[i]], b[Fields[i]])
    /\ \A j \in 1..(i - 1) : a[Fields[j]] = b[Fields[j]]

\* A queue entry, the tuple (t_event, message, note).
Event(t, m, n) == [t_event |-> t, message |-> m, note |-> n]

\* Tuple comparison of two queue entries, as heapq applies it.
EventLessOnFirst(a, b) ==
  \/ TimeLess(a.t_event, b.t_event)
  \/ /\ a.t_event = b.t_event
     /\ \/ a.message > b.message
        \/ a.message = b.message /\ NoteLess(a.note, b.note)
EventLess(a, b) ==
  \/ TimeLess(a.t_event, b.t_event)
  \/ /\ a.t_event = b.t_event
     /\ \/ a.message < b.message
        \/ a.message = b.message /\ NoteLess(a.note, b.note)

\* -------------------------------------------------------- priority queue
\* The queue is a bag (multiset) of entries; get() returns a least one.
QEmpty(q) == BagToSet(q) = {}
QMin(q) == CHOOSE e \in BagToSet(q) : \A f \in BagToSet(q) : ~EventLess(f, e)
QPut(q, e) == q (+) SetToBag({e})
QPop(q) == q (-) SetToBag({QMin(q)})
QSize(q) == BagCardinality(q)

\* asyncio.Queue.get suspends the caller only while the queue is empty.
GetSuspendsYielding(q) == TRUE
GetSuspends(q) == QEmpty(q)

\* ---------------------------------------------------- rows and parsing
\* The float inf as a field value: above every other value of the model.
Infinity == 1000000

\* A cell of a fetched record: an int, a float (in eighths), the float inf,
\* or a string that is not a numeral ('' for an empty cell).
I(n) == [tag |-> "int", num |-> n, str |-> ""]
F(x) == [tag |-> "float", num |-> x, str |-> ""]
Inf == [tag |-> "inf", num |-> Infinity, str |-> ""]
S(s) == [tag |-> "str", num |-> 0, str |-> s]

IsBlank(v) == v.tag = "str" /\ v.str = ""

\* Truncation toward zero of a float: Python int(float).
Trunc(x) == IF x >= 0 THEN x \div Scale ELSE -((-x) \div Scale)

\* The exception types[k](v) of line 193 raises, "" when it returns: int()
\* and float() raise ValueError on a string that is not a numeral, and
\* int() raises OverflowError on the float inf.
CoerceError(k, v) ==
  IF v.tag = "str" THEN "ValueError"
  ELSE IF v.tag = "inf" /\ k \in IntFields THEN "OverflowError"
  ELSE ""
Coercible(k, v) == CoerceError(k, v) = ""
\* float(v) of a numeric cell.
FloatOf(v) == IF v.tag = "int" THEN v.num * Scale ELSE v.num
\* int(v) for a pitch or channel cell, float(v) for the others, where
\* types[k](v) returns.
Coerce(k, v) ==
  IF k \in IntFields
    THEN (IF v.tag = "int" THEN v.num ELSE Trunc(v.num))
    ELSE (IF k = "duration" THEN At(FloatOf(v)) ELSE FloatOf(v))

\* The keys line 193 keeps: known fields whose cell is not ''.
KeptKeys(record) == {k \in DOMAIN record : k \in FieldSet /\ ~IsBlank(record[k])}

FieldDefault(k) ==
  CASE k = "channel" -> DefaultChannel
    [] k = "loop" -> DefaultLoop
    [] k = "onset" -> DefaultOnset
    [] k = "duration" -> DefaultDuration
    [] k = "velocity" -> DefaultVelocity
    [] k = "probability" -> DefaultProbability
    [] OTHER -> 0

\* The sanity check of line 197.
LoopRejected(loop) == loop = 0

\* Line 193 goes through the cells of the row in the order of the sheet's
\* columns and the first conversion that fails ends it.  The sheets of the
\* model have the columns of the fields in the order of Fields.
FirstError(record) ==
  LET bad == {i \in 1..Len(Fields) :
                /\ Fields[i] \in KeptKeys(record)
                /\ ~Coercible(Fields[i], record[Fields[i]])}
      first == CHOOSE i \in bad : \A j \in bad : i <= j
  IN  IF bad = {} THEN "" ELSE CoerceError(Fields[first], record[Fields[first]])

\* note_from_dict: [err |-> "" , note |-> n] on success, otherwise the
\* exception class raised.
note_from_dict(record) ==
  LET kept == KeptKeys(record)
      val(k) == IF k \in kept THEN Coerce(k, record[k]) ELSE FieldDefault(k)
      built == [k \in FieldSet |-> val(k)]
  IN  IF FirstError(record) # ""
        THEN [err |-> FirstError(record), note |-> NoNote]
      ELSE IF "pitch" \notin kept
        THEN [err |-> "TypeError", note |-> NoNote]
      ELSE IF LoopRejected(built.loop)
        THEN [err |-> "ValueError", note |-> NoNote]
      ELSE [err |-> "", note |-> built]

\* ----------------------------------------------------------- arithmetic
\* Python's float floor division and modulo (the sign of % follows the
\* divisor), which are exact on counts of eighths: the floor of a/b and
\* what it leaves.
PyFloorDiv(a, b) == IF b > 0 THEN a \div b ELSE (-a) \div (-b)
PyMod(a, b) == a - b * PyFloorDiv(a, b)

\* Line 112: t // note.loop * note.loop + note.onset % note.loop
FirstOnsetNoMod(t, note) == PyFloorDiv(t, note.loop) * note.loop + note.onset
FirstOnset(t, note) == PyFloorDiv(t, note.loop) * note.loop + PyMod(note.onset, note.loop)

\* Line 145: the MIDI message handed to midi_out.send.
midi_event(message, note) == <<message + note.channel - 1, note.pitch, note.velocity>>

\* Line 144: the popped entry is fired when the elapsed time has passed it.
DueOrEqual(t, t_event) == TimeLeq(t_event, At(t))
Due(t, t_event) == TimeLess(t_event, At(t))

\* Line 149: random.random() < note.probability
HitOrEqual(draw, note) == draw <= note.probability
Hit(draw, note) == draw < note.probability

\* Values random.random() is drawn from, a sample of [0.0, 1.0): 0.0 and 0.5.
Draws == {0, 4}

\* ------------------------------------------------------- fetched sheets
RowA == [pitch |-> I(60), loop |-> F(2), duration |-> F(1)]
RowA2 == [pitch |-> I(62), loop |-> F(2), duration |-> F(2)]
RowB == [pitch |-> I(67), loop |-> F(3), onset |-> F(4), duration |-> F(2), probability |-> F(4)]
RowZ == [pitch |-> I(64), loop |-> F(2), probability |-> I(0), comment |-> S("muted")]
RowNeg == [pitch |-> I(65), loop |-> F(-2), onset |-> F(1), probability |-> I(0)]
RowD == [pitch |-> F(580), channel |-> I(2), onset |-> S("")]
RowNoPitch == [loop |-> F(2), onset |-> F(1)]
RowBadPitch == [pitch |-> S("c4"), loop |-> F(2)]
RowBadVelocity == [pitch |-> I(60), velocity |-> S("loud")]
RowZeroLoop == [pitch |-> I(60), loop |-> I(0)]
RowEmpty == [pitch |-> S(""), loop |-> S(""), onset |-> S("")]
RowInfPitch == [pitch |-> Inf, loop |-> F(2)]

\* What worksheet.get_all_records() may return in a cycle.
Sheets ==
  { <<>>, <<RowA2>>, <<RowNeg>>,
    <<RowNoPitch, RowB, RowZeroLoop>>, <<RowZ, RowBadVelocity, RowA>>,
    <<RowA, RowEmpty, RowA>>, <<RowBadPitch, RowD>>, <<RowA, RowInfPitch, RowA2>> }

\* ----------------------------------------------------------------- state
VARIABLES
  now,      \* time() - start_time, in eighths
  queue,    \* the PriorityQueue both tasks share
  cpu,      \* the task that is running: "recv", "send" or "none"
  rpc,      \* receive: "fetch", "clear", "restore", "rows", "catchup", "dead" (ended by an exception)
  records,  \* receive: the rows of the current cycle
  ridx,     \* receive: index of the record the for loop is at
  offsets,  \* clear_onsets: the NOTE_OFF entries set aside
  rt,       \* receive: t of line 109
  rte,      \* receive: t_event of lines 112-114
  rnote,    \* receive: note of line 111
  spc,      \* send: "run", "wait" (inside queue.get), "dead", "cancelled"
  st,       \* send: t of line 142
  sent,     \* what midi_out.send was given, with the entry that caused it
  entry,    \* the queue as it was when clear_onsets was called
  fired,    \* the fire time of the entry send fired last, <<>> before the first
  mainpc    \* main: "gather" (awaiting gather, line 81), "left" (raised out
            \* of line 81) or "closed" (asyncio.run has cancelled the tasks)

vars == <<now, queue, cpu, rpc, records, ridx, offsets, rt, rte, rnote, spc, st, sent,
          entry, fired, mainpc>>
recvLocals == <<records, ridx, offsets, rt, rte, rnote, entry>>

Init ==
  /\ now = 0
  /\ queue = EmptyBag
  /\ cpu = "none"
  /\ rpc = "fetch"
  /\ records = <<>>
  /\ ridx = 0
  /\ offsets = <<>>
  /\ rt = 0
  /\ rte = 0
  /\ rnote = NoNote
  /\ spc = "run"
  /\ st = 0
  /\ sent = EmptyBag
  /\ entry = EmptyBag
  /\ fired = <<>>
  /\ mainpc = "gather"

\* The event loop runs the tasks until asyncio.run has closed it.
Alive == mainpc # "closed"

\* Wall-clock time passes, whatever the tasks do.
Tick ==
  /\ Alive
  /\ now < MaxTime
  /\ now' = now + 1
  /\ UNCHANGED <<queue, cpu, rpc, recvLocals, spc, st, sent, fired, mainpc>>


\* ---------------------------------------------------------------- receive
\* Line 104 returns: `await worksheet.get_all_records()` gives the rows and
\* receive runs on; line 105 enters clear_onsets.
RecvFetch(sheet) ==
  /\ Alive
  /\ rpc = "fetch"
  /\ cpu = "none"
  /\ rpc' = "clear"
  /\ cpu' = "recv"
  /\ records' = sheet
  /\ offsets' = <<>>
  /\ entry' = queue
  /\ UNCHANGED <<now, queue, ridx, rt, rte, rnote, spc, st, sent, fired, mainpc>>

\* Line 104 raises: nothing in receive catches it, so it ends the receive
\* task.  main, which awaits the task through gather (line 81), is resumed
\* by the event loop some turns later; until then send can take a turn.
RecvFetchFail ==
  /\ Alive
  /\ rpc = "fetch"
  /\ cpu = "none"
  /\ rpc' = "dead"
  /\ UNCHANGED <<now, queue, cpu, recvLocals, spc, st, sent, fired, mainpc>>

\* Line 81 raises in main: the exception of the receive task leaves gather
\* and main, in a turn of the event loop of its own.  The send task is
\* still there and can take a turn after it.
MainLeaves ==
  /\ mainpc = "gather"
  /\ rpc = "dead"
  /\ cpu = "none"
  /\ mainpc' = "left"
  /\ UNCHANGED <<now, queue, cpu, rpc, recvLocals, spc, st, sent, fired>>

\* Line 240: main has raised, and asyncio.run cancels the tasks that are
\* left before it closes the event loop: send, suspended at line 143 or
\* line 157, gets CancelledError there.
RunCancels ==
  /\ mainpc = "left"
  /\ cpu = "none"
  /\ mainpc' = "closed"
  /\ spc' = IF spc = "dead" THEN "dead" ELSE "cancelled"
  /\ UNCHANGED <<now, queue, cpu, rpc, recvLocals, st, sent, fired>>

\* Line 172: the entries clear_onsets sets aside to put back.
KeptEvery(e) == TRUE
Kept(e) == e.message = NOTE_OFF

\* Lines 170-173, one iteration of the drain loop.  rpc = "clear_get" is
\* the task parked inside queue.get().
RecvClearGet ==
  /\ Alive
  /\ rpc \in {"clear", "clear_get"}
  /\ cpu = (IF rpc = "clear" THEN "recv" ELSE "none")
  /\ ~QEmpty(queue)
  /\ IF rpc = "clear" /\ GetSuspends(queue)
       THEN /\ rpc' = "clear_get"
            /\ cpu' = "none"
            /\ UNCHANGED <<queue, offsets>>
       ELSE /\ rpc' = "clear"
            /\ cpu' = "recv"
            /\ queue' = QPop(queue)
            /\ offsets' = IF Kept(QMin(queue)) THEN Append(offsets, QMin(queue)) ELSE offsets
  /\ UNCHANGED <<now, records, ridx, rt, rte, rnote, entry, spc, st, sent, fired, mainpc>>

\* Line 170 finds the queue empty: the drain loop ends.
RecvClearDone ==
  /\ Alive
  /\ rpc = "clear"
  /\ cpu = "recv"
  /\ QEmpty(queue)
  /\ rpc' = "restore"
  /\ UNCHANGED <<now, queue, cpu, records, ridx, offsets, rt, rte, rnote, entry, spc, st, sent, fired, mainpc>>

\* Lines 176-177, one iteration: the next set-aside entry is put back.
RecvRestore ==
  /\ Alive
  /\ rpc = "restore"
  /\ cpu = "recv"
  /\ offsets # <<>>
  /\ queue' = QPut(queue, Head(offsets))
  /\ offsets' = Tail(offsets)
  /\ UNCHANGED <<now, cpu, rpc, records, ridx, rt, rte, rnote, entry, spc, st, sent, fired, mainpc>>

\* Line 179: clear_onsets returns; the for loop of line 108 starts.
RecvReturn ==
  /\ Alive
  /\ rpc = "restore"
  /\ cpu = "recv"
  /\ offsets = <<>>
  /\ rpc' = "rows"
  /\ ridx' = 1
  /\ UNCHANGED <<now, queue, cpu, records, offsets, rt, rte, rnote, entry, spc, st, sent, fired, mainpc>>

\* Line 117: the exceptions the per-row try block swallows.
Caught(err) == err \in {"ValueError", "TypeError"}

\* Lines 109-112 for the record at ridx: read the time, parse the row and
\* compute the first candidate t_event; a caught parse failure skips the row,
\* any other exception ends the receive task.
RecvRow ==
  /\ Alive
  /\ rpc = "rows"
  /\ cpu = "recv"
  /\ ridx <= Len(records)
  /\ LET r == note_from_dict(records[ridx])
     IN  IF r.err = ""
           THEN /\ rpc' = "catchup"
                /\ rt' = now
                /\ rnote' = r.note
                /\ rte' = FirstOnset(now, r.note)
                /\ UNCHANGED <<ridx, spc, cpu>>
         ELSE IF Caught(r.err)
           THEN /\ ridx' = ridx + 1
                /\ UNCHANGED <<rpc, rt, rte, rnote, spc, cpu>>
         ELSE /\ rpc' = "dead"
              /\ cpu' = "none"
              /\ UNCHANGED <<ridx, rt, rte, rnote, spc>>
  /\ UNCHANGED <<now, queue, records, offsets, entry, st, sent, fired, mainpc>>

\* Lines 113-115: one test of the while condition; either t_event moves on
\* by one loop, or the NOTE_ON entry is put and the for loop advances.
RecvCatchup ==
  /\ Alive
  /\ rpc = "catchup"
  /\ cpu = "recv"
  /\ IF rte < rt
       THEN /\ rte + rnote.loop >= -MaxBack
            /\ rte' = rte + rnote.loop
            /\ UNCHANGED <<queue, rpc, ridx, rt, rnote>>
       ELSE /\ queue' = QPut(queue, Event(At(rte), NOTE_ON, rnote))
            /\ rpc' = "rows"
            /\ ridx' = ridx + 1
            /\ rt' = 0
            /\ rte' = 0
            /\ rnote' = NoNote
  /\ UNCHANGED <<now, cpu, records, offsets, entry, spc, st, sent, fired, mainpc>>

\* The for loop is exhausted: receive is back at line 104 and suspends.
RecvCycleEnd ==
  /\ Alive
  /\ rpc = "rows"
  /\ cpu = "recv"
  /\ ridx > Len(records)
  /\ rpc' = "fetch"
  /\ cpu' = "none"
  /\ records' = <<>>
  /\ ridx' = 0
  /\ entry' = EmptyBag
  /\ UNCHANGED <<now, queue, offsets, rt, rte, rnote, spc, st, sent, fired, mainpc>>

\* ------------------------------------------------------------------- send
\* An entry of the sink's log: the MIDI message and the queue entry fired.
Sent(e) == [midi |-> midi_event(e.message, e.note), t_event |-> e.t_event,
            message |-> e.message, note |-> e.note]

\* Line 152: the NOTE_OFF entry that follows an emitted NOTE_ON.
StopOf(e) == Event(TimePlus(e.t_event, e.note.duration), NOTE_OFF, e.note)
\* Line 153: the NOTE_ON entry of the next loop cycle.
NextStartFromNow(e) == Event(At(now + e.note.loop), NOTE_ON, e.note)
NextStart(e) == Event(TimePlus(e.t_event, At(e.note.loop)), NOTE_ON, e.note)

\* send can take its next turn: it is running, or was suspended in sleep
\* (line 157), or is parked in queue.get() (line 143) and the queue has an
\* entry again.
SendReady ==
  /\ Alive
  /\ \/ spc = "run" /\ cpu \in {"none", "send"}
     \/ spc = "wait" /\ cpu = "none" /\ ~QEmpty(queue)

\* The t of line 142: read before queue.get(), so it is the time at which
\* send parked when the get had to wait.
SendT == IF spc = "run" THEN now ELSE st

\* midi_out.send is reached for the entry e under this draw.
Emits(e, draw) == e.message = NOTE_OFF \/ Hit(draw, e.note)

\* Lines 149-153: the queue after the puts that follow a fired NOTE_ON
\* entry e, rest being the queue without e.  The renewal of line 153 is
\* outside the `if` of line 149.
DerivedOnHitOnly(rest, e, hit) ==
  IF hit THEN QPut(QPut(rest, StopOf(e)), NextStart(e)) ELSE rest
Derived(rest, e, hit) ==
  IF hit THEN QPut(QPut(rest, StopOf(e)), NextStart(e))
         ELSE QPut(rest, NextStart(e))

\* Lines 142-157, one iteration of the loop, with midi_out.send succeeding.
SendStep(draw) ==
  /\ SendReady
  /\ IF spc = "run" /\ GetSuspends(queue)
       THEN /\ spc' = "wait"
            /\ st' = now
            /\ cpu' = "none"
            /\ UNCHANGED <<queue, sent, fired>>
       ELSE LET e == QMin(queue)
                rest == QPop(queue)
            IN  IF Due(SendT, e.t_event)
                  THEN /\ spc' = "run"
                       /\ cpu' = "send"
                       /\ st' = 0
                       /\ fired' = <<e.t_event>>
                       /\ IF e.message = NOTE_OFF
                            THEN /\ queue' = rest
                                 /\ sent' = sent (+) SetToBag({Sent(e)})
                            ELSE /\ NextStart(e).t_event[1] >= -MaxBack
                                 /\ queue' = Derived(rest, e, Hit(draw, e.note))
                                 /\ sent' = IF Hit(draw, e.note)
                                              THEN sent (+) SetToBag({Sent(e)})
                                              ELSE sent
                  ELSE /\ spc' = "run"
                       /\ cpu' = "none"
                       /\ st' = 0
                       /\ UNCHANGED <<queue, sent, fired>>
  /\ UNCHANGED <<now, rpc, recvLocals, mainpc>>

\* Lines 147 and 150 raise: the exception ends the send task.  Nothing
\* awaits that task (line 81 gathers the receiver only), so receive runs on.
SendSinkFails(draw) ==
  /\ SendReady
  /\ ~QEmpty(queue)
  /\ Due(SendT, QMin(queue).t_event)
  /\ Emits(QMin(queue), draw)
  /\ queue' = QPop(queue)
  /\ spc' = "dead"
  /\ cpu' = "none"
  /\ st' = 0
  /\ UNCHANGED <<now, rpc, recvLocals, sent, fired, mainpc>>

\* ---------------------------------------------------------- specification
Next ==
  \/ Tick
  \/ \E sheet \in Sheets : RecvFetch(sheet)
  \/ RecvFetchFail
  \/ MainLeaves
  \/ RunCancels
  \/ RecvClearGet
  \/ RecvClearDone
  \/ RecvRestore
  \/ RecvReturn
  \/ RecvRow
  \/ RecvCatchup
  \/ RecvCycleEnd
  \/ \E draw \in Draws : SendStep(draw)
  \/ \E draw \in Draws : SendSinkFails(draw)

Spec == Init /\ [][Next]_vars


\* ------------------------------------------------- clear_onsets as a whole
\* Lines 169-173 run to the end: the entries set aside, in pop order.
RECURSIVE Drain(_, _)
Drain(q, offs) ==
  IF QEmpty(q) THEN offs
  ELSE Drain(QPop(q), IF Kept(QMin(q)) THEN Append(offs, QMin(q)) ELSE offs)

\* Lines 176-177 run to the end.
RECURSIVE Restore(_, _)
Restore(q, offs) ==
  IF offs = <<>> THEN q ELSE Restore(QPut(q, Head(offs)), Tail(offs))

\* The queue clear_onsets returns when nothing else touches the queue.
clear_onsets(q) == Restore(EmptyBag, Drain(q, <<>>))

\* ------------------------------------------------------ shared vocabulary
\* Entries that may occur in the state: those of the queue, of the queue at
\* the call of clear_onsets, and those set aside.
OffsetsSet == {offsets[i] : i \in 1..Len(offsets)}
SeenEvents == BagToSet(queue) \cup BagToSet(entry) \cup OffsetsSet
Copies(e, q) == IF e \in BagToSet(q) THEN CopiesIn(e, q) ELSE 0
InOffsets(e) == Cardinality({i \in 1..Len(offsets) : offsets[i] = e})

\* clear_onsets has just returned and the for loop has not started.
AtReturn == rpc = "rows" /\ ridx = 1
\* receive is between the first line and the return of clear_onsets.
InClearOnsets == rpc \in {"clear", "clear_get", "restore"}

\* ------------------------------------------------------------------ C1
\* C1: when clear_onsets returns, the queue holds exactly the NOTE_OFF
\* entries it held at the call, each as many times as before, and no
\* NOTE_ON entry; running clear_onsets on that queue again returns it
\* unchanged.
C1_ClearOnsetsKeepsExactlyOffsets ==
  AtReturn =>
    /\ \A e \in SeenEvents :
         Copies(e, queue) = IF e.message = NOTE_OFF THEN Copies(e, entry) ELSE 0
    /\ \A e \in BagToSet(queue) : e.message # NOTE_ON
    /\ \A e \in SeenEvents : Copies(e, clear_onsets(queue)) = Copies(e, queue)

\* clear_onsets returned from a queue that held both kinds of entry.
C1_Witness ==
  /\ AtReturn
  /\ \E e \in BagToSet(entry) : e.message = NOTE_ON
  /\ \E e \in BagToSet(entry) : e.message = NOTE_OFF
  /\ ~QEmpty(queue)

\* ------------------------------------------------------------------ C3
\* C3: from the call of clear_onsets to its return receive keeps running
\* (send cannot take a turn), it is never parked in queue.get(), and every
\* NOTE_OFF entry pending at the call is, exactly as often, either in the
\* queue or set aside; no NOTE_ON entry is added; at the return the pending
\* NOTE_OFF entries are all back and no NOTE_ON entry is left.
C3_ClearOnsetsAtomic ==
  /\ InClearOnsets =>
       /\ cpu = "recv"
       /\ rpc # "clear_get"
       /\ \A e \in SeenEvents :
            IF e.message = NOTE_OFF
              THEN Copies(e, queue) + InOffsets(e) = Copies(e, entry)
              ELSE Copies(e, queue) <= Copies(e, entry)
  /\ AtReturn =>
       /\ cpu = "recv"
       /\ \A e \in SeenEvents :
            Copies(e, queue) = IF e.message = NOTE_ON THEN 0 ELSE Copies(e, entry)

\* clear_onsets is putting the NOTE_OFF entries back while the entry that
\* was first in the queue at the call is due and send is not parked: send
\* would fire it if it got a turn.
C3_Witness ==
  /\ rpc = "restore"
  /\ offsets # <<>>
  /\ spc = "run"
  /\ ~QEmpty(entry)
  /\ Due(now, QMin(entry).t_event)

\* ------------------------------------------------------------------ C4
\* The fire times a note can have: k * loop + (onset mod loop).
CycleIndex == (-(MaxTime + MaxBack + 2))..(MaxTime + MaxBack + 2)
CycleTime(k, note) == k * note.loop + PyMod(note.onset, note.loop)

\* The while loop of line 113 has ended: line 115 puts (rte, NOTE_ON, rnote).
PutReady == rpc = "catchup" /\ rte >= rt

FiresStart ==
  /\ SendReady
  /\ now' = now
  /\ cpu' = "send"
  /\ ~QEmpty(queue)
  /\ QMin(queue).message = NOTE_ON
  /\ Due(SendT, QMin(queue).t_event)

One(b) == IF b THEN 1 ELSE 0

\* C5: whenever send fires a NOTE_ON entry with fire time f, the only
\* change to the NOTE_ON entries of the queue is that this entry is replaced
\* by one for the same note at exactly f + loop, whether the draw hit or
\* missed and however late after f the entry is fired; so the n-th NOTE_ON
\* entry send derives from a first one at first_start is at
\* first_start + n * loop.
C5_RenewalKeepsPhase ==
  [][FiresStart =>
       LET e == QMin(queue)
           renewed == [t_event |-> TimePlus(e.t_event, At(e.note.loop)), message |-> NOTE_ON,
                       note |-> e.note]
       IN  \A x \in BagToSet(queue) \cup BagToSet(queue') \cup {renewed} :
             x.message = NOTE_ON =>
               Copies(x, queue') = Copies(x, queue) - One(x = e) + One(x = renewed)
  ]_vars

\* The second NOTE_ON entry derived by send is in the queue: two NOTE_ON
\* messages one loop apart were sent and the entry two loops after the
\* first is pending, the latest of them fired late.
C5_Witness ==
  /\ cpu = "send"
  /\ \E a \in BagToSet(sent), b \in BagToSet(sent) :
       /\ a.message = NOTE_ON /\ b.message = NOTE_ON /\ a.note = b.note
       /\ b.t_event = TimePlus(a.t_event, At(a.note.loop))
       /\ now > b.t_event[1] + 1
       /\ Event(TimePlus(a.t_event, At(2 * a.note.loop)), NOTE_ON, a.note) \in BagToSet(queue)

\* ------------------------------------------------------------------ C6
\* No NOTE_ON message was sent for a note with probability 0 and no NOTE_OFF
\* entry for such a note is pending.
SilentNotesSilent ==
  /\ \A m \in BagToSet(sent) : m.note.probability = 0 => m.message # NOTE_ON
  /\ \A e \in BagToSet(queue) : e.note.probability = 0 => e.message # NOTE_OFF

\* C6: a note with probability 0 never has a NOTE_ON sent nor a NOTE_OFF
\* entry pending, and each of its NOTE_ON entries that send fires is
\* replaced by one at fire time + loop, with nothing sent.
C6_ProbabilityZeroOnlyRenews ==
  /\ []SilentNotesSilent
  /\ [][(FiresStart /\ QMin(queue).note.probability = 0) =>
          /\ sent' = sent
          /\ [t_event |-> TimePlus(QMin(queue).t_event, At(QMin(queue).note.loop)),
              message |-> NOTE_ON, note |-> QMin(queue).note] \in BagToSet(queue')
          /\ QSize(queue') = QSize(queue)
     ]_vars

\* send has just fired an entry and nothing was ever sent, so what it fired
\* were NOTE_ON entries that missed; the renewed NOTE_ON entry of a
\* probability-0 note with a positive loop is pending.
C6_Witness ==
  /\ cpu = "send"
  /\ sent = EmptyBag
  /\ \E e \in BagToSet(queue) :
       /\ e.message = NOTE_ON
       /\ e.note.probability = 0
       /\ e.note.loop > 0
       /\ e.t_event[1] >= e.note.loop

\* ------------------------------------------------------------------ C2
\* Messages of kind m sent for the note n.
SentCount(m, n) ==
  BagCardinality([x \in {y \in BagToSet(sent) : y.message = m /\ y.note = n} |-> sent[x]])
\* Notes with a NOTE_ON sent and no NOTE_OFF sent for it yet.
Sounding == {x.note : x \in {y \in BagToSet(sent) :
                SentCount(NOTE_ON, y.note) > SentCount(NOTE_OFF, y.note)}}

\* C2: every NOTE_ON sent is eventually followed by a NOTE_OFF for the same
\* note, whatever the later fetch cycles are.  Stated on finite runs: the
\* send task, the only sender, is never cancelled while a note is sounding
\* (after that, no NOTE_OFF can follow).
C2_NoteOffFollowsNoteOn == spc = "cancelled" => Sounding = {}

\* ------------------------------------------------------------------ C8
\* C8: a failing fetch costs one cycle only: the receive loop keeps running
\* and the send task is not terminated.
C8_FetchFailureSkipsCycle == rpc # "dead" /\ spc # "cancelled"

\* ------------------------------------------------------------------ C9
\* C9: once midi_out.send has failed and ended the send task, the receive
\* task is stopped too: it runs no fetch cycle and schedules nothing.
C9_SinkFailureStopsReceive == spc = "dead" => rpc \in {"fetch", "dead"}

\* ------------------------------------------------------------- C7 and C10
\* The rows of recs among the first n that parse, and the notes they give.
ParsedRows(recs, n) == {i \in 1..n : i <= Len(recs) /\ note_from_dict(recs[i]).err = ""}
ParsedNotes(recs) == {note_from_dict(recs[i]).note : i \in ParsedRows(recs, Len(recs))}

\* The for loop of line 108 has gone through every record.
AtCycleEnd == rpc = "rows" /\ ridx > Len(records)

\* C7 (none skipped): a fetch cycle that finds the row of a probability-1
\* note unchanged does not drop a cycle of the note: the NOTE_ON entry that
\* was pending for it is still there or is replaced by one that is not
\* later, so each cycle time from the first scheduled one on gets its
\* NOTE_ON.
C7_NoCycleSkipped ==
  AtCycleEnd =>
    \A e \in BagToSet(entry) :
      (e.message = NOTE_ON /\ e.note.probability >= Scale /\ e.note \in ParsedNotes(records))
        => \E q \in BagToSet(queue) :
             q.message = NOTE_ON /\ q.note = e.note /\ TimeLeq(q.t_event, e.t_event)

\* NOTE_ON entries for the note n in q.
StartsOf(n, q) ==
  BagCardinality([x \in {y \in BagToSet(q) : y.message = NOTE_ON /\ y.note = n} |-> q[x]])

\* C10: in the for loop of a fetch cycle a row that fails to parse puts
\* nothing and does not end the loop: after the first i rows the queue holds
\* one NOTE_ON entry per row among them that parsed (as many for a note as
\* rows gave it) and none else, and receive never dies inside the loop.
C10_BadRowsAreSkipped ==
  /\ rpc = "rows" =>
       LET parsed == {<<i, note_from_dict(records[i])>> : i \in 1..Len(records)}
           notes == {p[2].note : p \in {x \in parsed : x[2].err = ""}}
       IN  /\ \A n \in notes :
                StartsOf(n, queue) =
                  Cardinality({p \in parsed : p[1] < ridx /\ p[2].err = "" /\ p[2].note = n})
           /\ \A e \in BagToSet(queue) : e.message = NOTE_ON => e.note \in notes
  /\ rpc = "dead" => ridx = 0

\* ------------------------------------------------------------------ C11
\* C11: every note note_from_dict returns has loop > 0, so the note receive
\* is scheduling and the note of every queue entry have a positive loop.
C11_OnlyPositiveLoopsScheduled ==
  /\ rpc = "catchup" => rnote.loop > 0
  /\ \A e \in BagToSet(queue) : e.note.loop > 0

\* ------------------------------------------------------------------ C12
\* C12: the entries send fires (those it emits or renews, not those it puts
\* back as not yet due) come in non-decreasing order of fire time: each
\* fired entry has a fire time that is not before that of the entry fired
\* last.
C12_FireTimesNeverDecrease ==
  [][(fired # <<>> /\ fired' # fired) => TimeLeq(fired[1], fired'[1])]_vars

\* ------------------------------------------------------------------ C13
\* C13: whenever both tasks are suspended the queue holds at most one
\* NOTE_ON entry per note, and when the for loop of a fetch cycle is through
\* it holds exactly one for each note the rows of the fetch gave.
C13_OneStartPerNote ==
  /\ cpu = "none" => \A e \in BagToSet(queue) : StartsOf(e.note, queue) <= 1
  /\ AtCycleEnd => \A n \in ParsedNotes(records) : StartsOf(n, queue) = 1

\* ------------------------------------------------------------------ C14
\* NOTE_OFF entries for the note n in q.
StopsOf(n, q) ==
  BagCardinality([x \in {y \in BagToSet(q) : y.message = NOTE_OFF /\ y.note = n} |-> q[x]])
\* The notes that were sent or are pending.
KnownNotes == {x.note : x \in BagToSet(sent)} \cup {e.note : e \in BagToSet(queue)}

\* C14: whenever the tasks of the running process are suspended, the
\* pending NOTE_OFF entries are exactly the notes that sound: for each note,
\* the NOTE_ON messages sent less the NOTE_OFF messages sent is the number
\* of NOTE_OFF entries in the queue; and each NOTE_OFF sent has the channel
\* and pitch of a NOTE_ON sent before it.
C14_PendingStopsAreSoundingNotes ==
  (Alive /\ cpu = "none") =>
    /\ \A n \in KnownNotes :
         SentCount(NOTE_ON, n) - SentCount(NOTE_OFF, n) = StopsOf(n, queue)
    /\ \A x \in BagToSet(sent) :
         x.message = NOTE_OFF =>
           \E y \in BagToSet(sent) :
             /\ y.message = NOTE_ON
             /\ y.midi[1] - NOTE_ON = x.midi[1] - NOTE_OFF
             /\ y.midi[2] = x.midi[2]

\* ------------------------------------------------------------------ C15
\* This step is a turn of send: one iteration of its loop.
SendTurn == SendReady /\ now' = now /\ rpc' = rpc /\ mainpc' = mainpc

\* C15 as claimed: whenever the time has reached the fire time of the first
\* entry (now >= fire_time, equality included), a turn of send takes that
\* entry out of the queue and fires it.
C15_FiresWhenFireTimeReached ==
  [][(SendTurn /\ ~QEmpty(queue) /\ TimeLeq(QMin(queue).t_event, At(now))) =>
       Copies(QMin(queue), queue') < Copies(QMin(queue), queue)]_vars

\* C15 as amended: a turn of send that finds an entry fires the first entry
\* exactly when the time t read at line 142 is strictly after its fire time.
\* A fired entry leaves the queue; if it is a NOTE_OFF entry nothing is put
\* and the NOTE_OFF is handed to midi_out.send whatever the probability
\* (sent, unless the sink raises and ends the task).  Otherwise, t ==
\* fire_time included, the queue is as before, nothing is sent and send
\* sleeps.
C15_FiresStrictlyAfterFireTime ==
  [][(SendTurn /\ ~QEmpty(queue)) =>
       LET e == QMin(queue)
       IN  IF TimeLess(e.t_event, At(SendT))
             THEN /\ Copies(e, queue') = Copies(e, queue) - 1
                  /\ e.message = NOTE_OFF =>
                       /\ \A x \in BagToSet(queue) \cup BagToSet(queue') :
                            Copies(x, queue') = Copies(x, queue) - (IF x = e THEN 1 ELSE 0)
                       /\ \/ sent' = sent (+) SetToBag({[midi |-> midi_event(NOTE_OFF, e.note),
                                                        t_event |-> e.t_event,
                                                        message |-> NOTE_OFF,
                                                        note |-> e.note]})
                          \/ spc' = "dead" /\ sent' = sent
             ELSE /\ \A x \in BagToSet(queue) \cup BagToSet(queue') :
                       Copies(x, queue') = Copies(x, queue)
                  /\ sent' = sent
                  /\ spc' = "run"
                  /\ cpu' = "none"
  ]_vars

\* send has sent a NOTE_OFF, has just fired an entry, and the entry that is
\* first now has its fire time equal to the time: it is not fired.
C15_Witness ==
  /\ cpu = "send"
  /\ spc = "run"
  /\ \E x \in BagToSet(sent) : x.message = NOTE_OFF
  /\ ~QEmpty(queue)
  /\ QMin(queue).t_event = At(now)

\* ------------------------------------------------------------------ C16
\* The notes that have a NOTE_ON entry in q.
StartNotes(q) == {e.note : e \in {x \in BagToSet(q) : x.message = NOTE_ON}}
\* The entries of the sink's log this step adds.
NewlySent == {x \in BagToSet(sent') : Copies(x, sent') > Copies(x, sent)}

\* C16: when the for loop of a fetch cycle is through, the only NOTE_ON
\* entries in the queue are for notes the rows of that fetch gave, and the
\* NOTE_OFF entries pending before the cycle are all there with their fire
\* times; and send never brings a note back: a turn of send leaves NOTE_ON
\* entries only for notes that have one, sends NOTE_ON only for a note that
\* has one, and sends NOTE_OFF only from a pending NOTE_OFF entry, with its
\* fire time.  So a note whose row is gone gets no further NOTE_ON, only
\* its pending NOTE_OFF.
C16_RemovedNotesStaySilent ==
  /\ [](AtCycleEnd =>
          /\ StartNotes(queue) \subseteq ParsedNotes(records)
          /\ \A e \in BagToSet(entry) \cup BagToSet(queue) :
               e.message = NOTE_OFF => Copies(e, queue) = Copies(e, entry))
  /\ [][SendTurn =>
          /\ StartNotes(queue') \subseteq StartNotes(queue)
          /\ \A x \in NewlySent :
               /\ x.message = NOTE_ON => x.note \in StartNotes(queue)
               /\ x.message = NOTE_OFF =>
                    Copies(Event(x.t_event, NOTE_OFF, x.note), queue) >= 1
     ]_vars

\* A fetch cycle is through whose rows gave a note but not the note N that
\* had a NOTE_ON entry before the cycle, while a NOTE_OFF entry for N is
\* pending.
C16_Witness ==
  /\ AtCycleEnd
  /\ ParsedNotes(records) # {}
  /\ \E e \in BagToSet(entry) :
       /\ e.message = NOTE_ON
       /\ e.note \notin ParsedNotes(records)
       /\ StopsOf(e.note, queue) >= 1
       /\ StartsOf(e.note, queue) = 0

\* ------------------------------------------------------------------ C17
\* C17 as claimed: a fired NOTE_ON entry produces no or two new entries, so
\* firing it changes the size of the queue by -1 or by +1.
C17_StartProducesZeroOrTwo ==
  [][FiresStart => QSize(queue') - QSize(queue) \in {-1, 1}]_vars

\* C17 as amended: a turn of send that fires a NOTE_ON entry e puts its
\* renewal always and the NOTE_OFF entry as well when the NOTE_ON is sent:
\* one or two new entries, the size of the queue changing by 0 or by +1;
\* only when midi_out.send raises is nothing put (the task has ended, the
\* size is down by 1).  A fired NOTE_OFF entry puts nothing: the size is
\* down by 1.
C17_StartProducesOneOrTwo ==
  [][(SendTurn /\ ~QEmpty(queue) /\ Due(SendT, QMin(queue).t_event)) =>
       LET e == QMin(queue)
           d == QSize(queue') - QSize(queue)
           renewal == Event(TimePlus(e.t_event, At(e.note.loop)), NOTE_ON, e.note)
           stop == Event(TimePlus(e.t_event, e.note.duration), NOTE_OFF, e.note)
       IN  IF e.message = NOTE_OFF \/ spc' = "dead"
             THEN d = -1
             ELSE /\ Copies(renewal, queue') = Copies(renewal, queue) + 1
                  /\ IF sent' # sent
                       THEN d = 1 /\ Copies(stop, queue') = Copies(stop, queue) + 1
                       ELSE d = 0
  ]_vars

\* send has just fired the NOTE_ON entry of a note and missed (its renewal
\* is pending and no NOTE_ON was sent for that fire time), after a NOTE_ON
\* of the same note was sent for an earlier cycle.
C17_Witness ==
  /\ cpu = "send"
  /\ fired # <<>>
  /\ \E e \in BagToSet(queue) :
       /\ e.message = NOTE_ON
       /\ e.t_event = TimePlus(fired[1], At(e.note.loop))
       /\ \A x \in BagToSet(sent) : ~(x.note = e.note /\ x.t_event = fired[1])
       /\ \E x \in BagToSet(sent) : x.note = e.note /\ x.message = NOTE_ON

C19_SendRunsOutOfDueEntries ==
  [][FiresStart =>
       \E e \in BagToSet(queue') :
         /\ e.message = NOTE_ON
         /\ e.note = QMin(queue).note
         /\ TimeLess(QMin(queue).t_event, e.t_event)
         /\ Copies(e, queue') > Copies(e, queue)
  ]_vars

\* ------------------------------------------------------------------ C20
\* C20: the while loop of line 113 ends after at most one iteration: once
\* t_event has been advanced by loop it is not below t.
C20_CatchUpAtMostOnce ==
  [][(rpc = "catchup" /\ rte < rt /\ now' = now) => rte' >= rt]_vars

=============================================================================
